---- MODULE Spec2Model ----
(***************************************************************************)
(* A model of magic_pdf/utils/office_to_pdf.py: the Chinese-font check,    *)
(* the search for LibreOffice's soffice executable, and the conversion of  *)
(* one office document to PDF by a child process.                          *)
(*                                                                         *)
(* Text (messages, file names, the output of a child process) is a         *)
(* sequence of tokens; Python's `x in s` on strings is the test for a      *)
(* contiguous sub-sequence.  A filesystem path is the sequence of its      *)
(* components.  An exception is a record of its type and of str(e).        *)
(***************************************************************************)
EXTENDS Integers, Sequences, FiniteSets, TLC

VARIABLES
    system_type,   \* platform.system()
    environ,       \* os.environ, the two variables get_soffice_command reads
    PATH,          \* the process search path shutil.which walks
    fs,            \* the filesystem: path -> "absent" | "file" | "exec" | "dir"
    font_dir,      \* the names of the entries of C:/Windows/Fonts
    fc_list,       \* what running ['fc-list', ':lang=zh'] does on this host
    pc,            \* per caller: where its convert_file_to_pdf call stands
    input_path,    \* per caller: argument of the call
    output_dir,    \* per caller: argument of the call
    soffice_cmd,   \* per caller: local of the call
    process,       \* per caller: local of the call (the CompletedProcess)
    steps,         \* per caller: the steps the call has carried out so far
    outcome,       \* per caller: how the call ended
    fs0,           \* the filesystem before the first call
    result         \* the results of the direct calls of a helper made so far

host == <<system_type, environ, PATH, font_dir, fc_list>>
calls == <<pc, input_path, output_dir, soffice_cmd, process, steps, outcome, fs0>>
vars == <<system_type, environ, PATH, fs, font_dir, fc_list, pc, input_path,
          output_dir, soffice_cmd, process, steps, outcome, fs0, result>>

None == "None"

\* No path: None where Python has a path or None (both are falsy).
NoPath == <<>>

\* ------------------------------------------------------------------ bounds

\* How many of the probed executable locations exist on a host of SpecLocator.
MaxExisting == 2

\* ------------------------------------------------------------------ text

\* Python: sub in s (both str).
Contains(s, sub) ==
    \E i \in 0..(Len(s) - Len(sub)) : SubSeq(s, i + 1, i + Len(sub)) = sub

RECURSIVE Join(_, _)
\* Python: sep.join(list).
Join(sep, list) ==
    IF list = <<>> THEN <<>>
    ELSE IF Len(list) = 1 THEN list[1]
    ELSE list[1] \o sep \o Join(sep, Tail(list))

\* A byte string is a sequence of chunks; a chunk is either the UTF-8 encoding
\* of a token or a byte sequence that is no valid UTF-8.
InvalidUtf8 == {"\\xff", "\\xcb\\xce"}

\* Python: bytes.decode() / the text-mode reader of subprocess (encoding='utf-8',
\* errors='strict').
Decode(bytes) ==
    IF \E i \in 1..Len(bytes) : bytes[i] \in InvalidUtf8
    THEN [raised |-> TRUE, value |-> <<>>]
    ELSE [raised |-> FALSE, value |-> bytes]

\* ------------------------------------------------------------ exceptions

Exc(type, msg) == [type |-> type, msg |-> msg]
NoExc == Exc(None, <<>>)

Return(v) == [raised |-> FALSE, value |-> v, exc |-> NoExc]
Raise(e) == [raised |-> TRUE, value |-> None, exc |-> e]

ConvertToPdfError(msg) == Exc("ConvertToPdfError", msg)

\* EnvironmentError is Python's alias of OSError.
EnvironmentError(msg) == Exc("EnvironmentError", msg)

\* ----------------------------------------------------------- font checker

REQUIRED_CHS_FONTS ==
    << <<"SimSun">>,
       <<"Microsoft", " ", "YaHei">>,
       <<"Noto", " ", "Sans", " ", "CJK", " ", "SC">> >>

MissingFontMsg ==
    <<"Missing Chinese font. Please install at least one of: ">>
        \o Join(<<", ">>, REQUIRED_CHS_FONTS)

\* font_dir.glob("*.ttf"): the entries whose name ends in .ttf (the match is
\* case-insensitive on Windows).
GlobTtf(dir) == {f \in dir : Len(f) > 0 /\ f[Len(f)] \in {".ttf", ".TTF"}}

\* font in installed_fonts where the code has any(font in f for f in installed_fonts).
WindowsFontFoundExact(dir) ==
    \E k \in 1..Len(REQUIRED_CHS_FONTS) : REQUIRED_CHS_FONTS[k] \in GlobTtf(dir)

WindowsFontFound(dir) ==
    \E k \in 1..Len(REQUIRED_CHS_FONTS) :
        \E f \in GlobTtf(dir) : Contains(f, REQUIRED_CHS_FONTS[k])

\* The Windows branch.
CheckFontsWindows(dir) ==
    IF WindowsFontFound(dir) THEN Return(TRUE)
    ELSE Raise(EnvironmentError(MissingFontMsg))

\* subprocess.check_output(['fc-list', ':lang=zh'], encoding='utf-8'): the
\* text of standard output, or the exception of a failed launch, of output
\* that is not UTF-8, or of a nonzero exit status.
CheckOutput(fc) ==
    IF fc.launch # "ok"
    THEN Raise(Exc("FileNotFoundError",
                   <<"[Errno 2] No such file or directory: 'fc-list'">>))
    ELSE IF Decode(fc.stdout).raised
    THEN Raise(Exc("UnicodeDecodeError",
                   <<"'utf-8' codec can't decode byte: invalid start byte">>))
    ELSE IF fc.returncode # 0
    THEN Raise(Exc("CalledProcessError",
                   <<"Command '['fc-list', ':lang=zh']' returned non-zero exit status">>))
    ELSE Return(Decode(fc.stdout).value)

FcFontFound(output) ==
    \E k \in 1..Len(REQUIRED_CHS_FONTS) : Contains(output, REQUIRED_CHS_FONTS[k])

\* The body of the try block of the Linux/macOS branch.
CheckFontsFcList(fc) ==
    LET out == CheckOutput(fc)
    IN  IF out.raised THEN out
        ELSE IF FcFontFound(out.value) THEN Return(TRUE)
        ELSE Raise(EnvironmentError(MissingFontMsg))

\* The handler without {str(e)}.
FontDetectionFailedNoCause(e) ==
    EnvironmentError(<<"Font detection failed. Please install 'fontconfig' and fonts: ">>)

\* except Exception as e: raise EnvironmentError(f"Font detection failed. ...{str(e)}")
FontDetectionFailed(e) ==
    EnvironmentError(
        <<"Font detection failed. Please install 'fontconfig' and fonts: ">> \o e.msg)

\* The Linux/macOS branch: the handler also catches the EnvironmentError the
\* try block raises itself.
CheckFontsOther(fc) ==
    LET r == CheckFontsFcList(fc)
    IN  IF r.raised THEN Raise(FontDetectionFailed(r.exc)) ELSE r

check_fonts_installed(sys, dir, fc) ==
    IF sys = "Windows" THEN CheckFontsWindows(dir) ELSE CheckFontsOther(fc)

\* The child processes check_fonts_installed runs.
FontCheckCommands(sys) ==
    IF sys = "Windows" THEN <<>> ELSE << <<"fc-list", ":lang=zh">> >>

\* ------------------------------------------------------ executable locator

\* The filesystem.  The empty path is the current directory.
Kind(f, p) ==
    IF p = <<>> THEN "dir" ELSE IF p \in DOMAIN f THEN f[p] ELSE "absent"

\* os.path.exists / Path.exists
Exists(f, p) == Kind(f, p) # "absent"

\* os.path.isdir
IsDir(f, p) == Kind(f, p) = "dir"

\* os.path.exists where the code has os.path.isfile.
IsFileExists(f, p) == Exists(f, p)

\* os.path.isfile
IsFile(f, p) == Kind(f, p) \in {"file", "exec"}

\* The names shutil.which tries in one directory: the command itself, on
\* Windows the command with the extensions of PATHEXT.
WhichNames(sys) ==
    IF sys = "Windows" THEN <<"soffice.com", "soffice.exe">> ELSE <<"soffice">>

\* The candidates of shutil.which('soffice'), in the order it tries them.
RECURSIVE WhichCandidates(_, _)
WhichCandidates(sys, path) ==
    IF path = <<>> THEN <<>>
    ELSE [i \in 1..Len(WhichNames(sys)) |-> Head(path) \o <<WhichNames(sys)[i]>>]
             \o WhichCandidates(sys, Tail(path))

\* os.access(p, os.X_OK) on a regular file: the execute permission, which
\* on Windows every file has.
IsExecutable(sys, f, p) ==
    IF sys = "Windows" THEN Kind(f, p) \in {"file", "exec"} ELSE Kind(f, p) = "exec"

RECURSIVE FirstExecutable(_, _, _)
\* The loop of shutil.which over its candidates: the first that is an
\* executable regular file, or None.
FirstExecutable(sys, paths, f) ==
    IF paths = <<>> THEN NoPath
    ELSE IF IsExecutable(sys, f, Head(paths)) THEN Head(paths)
    ELSE FirstExecutable(sys, Tail(paths), f)

\* shutil.which('soffice')
Which(sys, path, f) == FirstExecutable(sys, WhichCandidates(sys, path), f)

\* os.environ.get(key, default)
EnvironGet(env, key, default) == IF key \in DOMAIN env THEN env[key] ELSE default

SofficeExe == <<"LibreOffice", "program", "soffice.exe">>

Drives == <<"C:", "D:", "E:", "F:", "G:", "H:">>

WindowsPossiblePaths(env) ==
    << EnvironGet(env, "PROGRAMFILES", <<"C:", "Program Files">>) \o SofficeExe,
       EnvironGet(env, "PROGRAMFILES(X86)", <<"C:", "Program Files (x86)">>) \o SofficeExe,
       <<"C:", "Program Files">> \o SofficeExe,
       <<"C:", "Program Files (x86)">> \o SofficeExe >>
        \o [i \in 1..Len(Drives) |-> <<Drives[i]>> \o SofficeExe]

UnixPossiblePaths ==
    << <<"/", "usr", "bin", "soffice">>,
       <<"/", "usr", "local", "bin", "soffice">>,
       <<"/", "opt", "libreoffice", "program", "soffice">>,
       <<"/", "Applications", "LibreOffice.app", "Contents", "MacOS", "soffice">> >>

WindowsNotFoundMsg ==
    <<"LibreOffice not found. Please install LibreOffice from https://www.libreoffice.org/ ",
      "or ensure soffice.exe is in your PATH environment variable.">>

UnixNotFoundMsg ==
    <<"LibreOffice not found. Please install it:\n",
      "  - Ubuntu/Debian: sudo apt-get install libreoffice\n",
      "  - CentOS/RHEL: sudo yum install libreoffice\n",
      "  - macOS: brew install libreoffice or download from https://www.libreoffice.org/\n",
      "  - Or ensure soffice is in your PATH environment variable.">>

RECURSIVE FirstExistingLast(_, _)
\* The loop without its return: the last existing entry.
FirstExistingLast(paths, f) ==
    IF paths = <<>> THEN NoPath
    ELSE IF FirstExistingLast(Tail(paths), f) # NoPath
    THEN FirstExistingLast(Tail(paths), f)
    ELSE IF Exists(f, Head(paths)) THEN Head(paths)
    ELSE NoPath

RECURSIVE FirstExisting(_, _)
\* for path in possible_paths: if path.exists(): return path
FirstExisting(paths, f) ==
    IF paths = <<>> THEN NoPath
    ELSE IF Exists(f, Head(paths)) THEN Head(paths)
    ELSE FirstExisting(Tail(paths), f)

\* The Windows branch.
LocateWindows(env, f) ==
    LET hit == FirstExisting(WindowsPossiblePaths(env), f)
    IN  IF hit # NoPath THEN Return(hit)
        ELSE Raise(ConvertToPdfError(WindowsNotFoundMsg))

\* The handler without {str(e)}.
ErrorLocatingNoCause(e) == ConvertToPdfError(<<"Error locating LibreOffice: ">>)

\* except Exception as e: raise ConvertToPdfError(f"Error locating LibreOffice: {str(e)}")
ErrorLocating(e) == ConvertToPdfError(<<"Error locating LibreOffice: ">> \o e.msg)

\* The Linux/macOS branch: the handler also catches the ConvertToPdfError the
\* try block raises itself.
LocateUnix(f) ==
    LET hit == FirstExisting(UnixPossiblePaths, f)
    IN  IF hit # NoPath THEN Return(hit)
        ELSE Raise(ErrorLocating(ConvertToPdfError(UnixNotFoundMsg)))

get_soffice_command(sys, env, path, f) ==
    LET soffice_path == Which(sys, path, f)
    IN  IF soffice_path # NoPath THEN Return(soffice_path)
        ELSE IF sys = "Windows" THEN LocateWindows(env, f)
        ELSE LocateUnix(f)

\* ------------------------------------------------------- conversion invoker

Parent(p) == SubSeq(p, 1, Len(p) - 1)

\* os.mkdir(p): the new filesystem, or the OSError.
Mkdir(f, p) ==
    IF Exists(f, p)
    THEN [raised |-> TRUE, exc |-> Exc("FileExistsError", <<"[Errno 17] File exists">>), fs |-> f]
    ELSE IF ~Exists(f, Parent(p))
    THEN [raised |-> TRUE, exc |-> Exc("FileNotFoundError", <<"[Errno 2] No such file or directory">>), fs |-> f]
    ELSE IF ~IsDir(f, Parent(p))
    THEN [raised |-> TRUE, exc |-> Exc("NotADirectoryError", <<"[Errno 20] Not a directory">>), fs |-> f]
    ELSE [raised |-> FALSE, exc |-> NoExc, fs |-> [f EXCEPT ![p] = "dir"]]

\* os.makedirs(output_dir) without exist_ok=True.
EXIST_OK_False == FALSE

\* The exist_ok argument of the os.makedirs call.
EXIST_OK == TRUE

\* os.makedirs that re-raises whatever mkdir raised.
MkdirLeafStrict(f, name, exist_ok) == Mkdir(f, name)

\* The end of os.makedirs: try: mkdir(name) except OSError: if not exist_ok or
\* not path.isdir(name): raise
MkdirLeaf(f, name, exist_ok) ==
    LET r == Mkdir(f, name)
    IN  IF r.raised /\ ~(exist_ok /\ IsDir(f, name)) THEN r
        ELSE [raised |-> FALSE, exc |-> NoExc, fs |-> r.fs]

RECURSIVE Makedirs(_, _, _)
\* os.makedirs(name, exist_ok=exist_ok): the missing parents first (a
\* FileExistsError of theirs is passed over), then the directory itself.
Makedirs(f, name, exist_ok) ==
    LET head == Parent(name)
        up == IF head # <<>> /\ ~Exists(f, head)
              THEN Makedirs(f, head, exist_ok)
              ELSE [raised |-> FALSE, exc |-> NoExc, fs |-> f]
    IN  IF up.raised /\ up.exc.type # "FileExistsError" THEN up
        ELSE MkdirLeaf(up.fs, name, exist_ok)

\* The argument list of the child process.
Cmd(cmd, in, out) ==
    <<cmd, "--headless", "--norestore", "--invisible", "--convert-to", "pdf",
      "--outdir", out, in>>

NoProcess == [state |-> "none", cmd |-> <<>>, returncode |-> 0, stderr |-> <<>>]

\* subprocess.run starting the child: the launch fails unless args[0] is an
\* executable file.
Popen(f, cmd) ==
    IF Kind(f, cmd[1]) = "exec"
    THEN Return([state |-> "running", cmd |-> cmd, returncode |-> 0, stderr |-> <<>>])
    ELSE IF Kind(f, cmd[1]) = "absent"
    THEN Raise(Exc("FileNotFoundError", <<"[Errno 2] No such file or directory">>))
    ELSE Raise(Exc("PermissionError", <<"[Errno 13] Permission denied">>))

\* if process.returncode != 0: raise ConvertToPdfError(f"...{process.stderr.decode()}")
ExitOutcome(p) ==
    IF p.returncode # 0
    THEN LET text == Decode(p.stderr)
         IN  IF text.raised
             THEN Raise(Exc("UnicodeDecodeError",
                            <<"'utf-8' codec can't decode byte: invalid start byte">>))
             ELSE Raise(ConvertToPdfError(<<"LibreOffice convert failed: ">> \o text.value))
    ELSE Return(None)

InputNotFound(in) ==
    Exc("FileNotFoundError", <<"The input file ">> \o in \o <<" does not exist.">>)

\* The fixed order of the steps of one call.
StepOrder == <<"isfile", "makedirs", "fonts", "locate", "spawn">>

Pending == [raised |-> FALSE, value |-> "pending", exc |-> NoExc]

\* ------------------------------------------------------------ the callers

Callers == {"A", "B"}

InputPaths == { <<"doc.docx">>, <<"missing.docx">>, <<"docs">> }

OutputDirs == { <<"out">>, <<"out", "pdf">>, <<"notes.txt", "pdf">> }

\* The name LibreOffice gives the PDF: the input's base name with .pdf.
PdfName(in) ==
    IF in = <<"doc.docx">> THEN "doc.pdf"
    ELSE IF in = <<"missing.docx">> THEN "missing.pdf"
    ELSE "docs.pdf"

\* What the child process may do: its exit status (negative: killed by a
\* signal), what it wrote to standard error, whether it wrote the PDF.
ProcResults ==
    { [returncode |-> 0, stderr |-> <<>>, wrote_pdf |-> TRUE],
      [returncode |-> 0, stderr |-> <<"Error: source file could not be loaded\n">>, wrote_pdf |-> FALSE],
      [returncode |-> 1, stderr |-> <<"bad format">>, wrote_pdf |-> FALSE],
      [returncode |-> 1, stderr |-> <<"\\xcb\\xce">>, wrote_pdf |-> FALSE],
      [returncode |-> -9, stderr |-> <<>>, wrote_pdf |-> FALSE] }

\* convert_file_to_pdf(input_path, output_dir) is called.
Call(t) ==
    /\ pc[t] \in {"idle", "done"}
    /\ \E in \in InputPaths, out \in OutputDirs :
          /\ input_path' = [input_path EXCEPT ![t] = in]
          /\ output_dir' = [output_dir EXCEPT ![t] = out]
    /\ pc' = [pc EXCEPT ![t] = "isfile"]
    /\ soffice_cmd' = [soffice_cmd EXCEPT ![t] = NoPath]
    /\ process' = [process EXCEPT ![t] = NoProcess]
    /\ steps' = [steps EXCEPT ![t] = <<>>]
    /\ outcome' = [outcome EXCEPT ![t] = Pending]
    /\ UNCHANGED <<host, fs, fs0, result>>

\* A failure that removes output_dir before it raises.
FailCleanup(t, e) ==
    /\ outcome' = [outcome EXCEPT ![t] = Raise(e)]
    /\ pc' = [pc EXCEPT ![t] = "done"]
    /\ fs' = IF output_dir[t] \in DOMAIN fs /\ fs[output_dir[t]] = "dir"
             THEN [fs EXCEPT ![output_dir[t]] = "absent"]
             ELSE fs

\* raise e: the call ends, and the exception reaches the caller; nothing is
\* undone.
Fail(t, e) ==
    /\ outcome' = [outcome EXCEPT ![t] = Raise(e)]
    /\ pc' = [pc EXCEPT ![t] = "done"]
    /\ fs' = fs

\* The locator called before the font check.
AfterLocateFirst(step) ==
    IF step = "isfile" THEN "makedirs"
    ELSE IF step = "makedirs" THEN "locate"
    ELSE IF step = "locate" THEN "fonts"
    ELSE IF step = "fonts" THEN "spawn"
    ELSE "running"

\* The statement that follows a step that did not raise.
After(step) ==
    IF step = "isfile" THEN "makedirs"
    ELSE IF step = "makedirs" THEN "fonts"
    ELSE IF step = "fonts" THEN "locate"
    ELSE IF step = "locate" THEN "spawn"
    ELSE "running"

Begin(t, step) == steps' = [steps EXCEPT ![t] = Append(@, step)]

Goto(t, label) == pc' = [pc EXCEPT ![t] = label]

\* if not os.path.isfile(input_path): raise FileNotFoundError(...)
CheckInput(t) ==
    /\ pc[t] = "isfile"
    /\ Begin(t, "isfile")
    /\ IF IsFile(fs, input_path[t])
       THEN Goto(t, After("isfile")) /\ UNCHANGED <<outcome, fs>>
       ELSE Fail(t, InputNotFound(input_path[t]))
    /\ UNCHANGED <<host, input_path, output_dir, soffice_cmd, process, fs0, result>>

\* os.makedirs(output_dir, exist_ok=True), its test whether the parent exists.
MakedirsEnter(t) ==
    /\ pc[t] = "makedirs"
    /\ Begin(t, "makedirs")
    /\ LET head == Parent(output_dir[t])
       IN  Goto(t, IF head # <<>> /\ ~Exists(fs, head) THEN "makedirs_head" ELSE "mkdir")
    /\ UNCHANGED <<host, fs, input_path, output_dir, soffice_cmd, process, outcome, fs0, result>>

\* os.makedirs, its recursive call for the parent found missing.
MakedirsHead(t) ==
    /\ pc[t] = "makedirs_head"
    /\ LET up == Makedirs(fs, Parent(output_dir[t]), EXIST_OK)
       IN  IF up.raised /\ up.exc.type # "FileExistsError"
           THEN Fail(t, up.exc)
           ELSE fs' = up.fs /\ Goto(t, "mkdir") /\ UNCHANGED outcome
    /\ UNCHANGED <<host, input_path, output_dir, soffice_cmd, process, steps, fs0, result>>

\* os.makedirs, its mkdir of output_dir itself.
MakedirsLeaf(t) ==
    /\ pc[t] = "mkdir"
    /\ LET r == MkdirLeaf(fs, output_dir[t], EXIST_OK)
       IN  IF r.raised
           THEN Fail(t, r.exc)
           ELSE fs' = r.fs /\ Goto(t, After("makedirs")) /\ UNCHANGED outcome
    /\ UNCHANGED <<host, input_path, output_dir, soffice_cmd, process, steps, fs0, result>>

\* check_fonts_installed()
CheckFonts(t) ==
    /\ pc[t] = "fonts"
    /\ Begin(t, "fonts")
    /\ LET r == check_fonts_installed(system_type, font_dir, fc_list)
       IN  IF r.raised
           THEN Fail(t, r.exc)
           ELSE Goto(t, After("fonts")) /\ UNCHANGED <<outcome, fs>>
    /\ UNCHANGED <<host, input_path, output_dir, soffice_cmd, process, fs0, result>>

\* soffice_cmd = get_soffice_command()
Locate(t) ==
    /\ pc[t] = "locate"
    /\ Begin(t, "locate")
    /\ LET r == get_soffice_command(system_type, environ, PATH, fs)
       IN  IF r.raised
           THEN Fail(t, r.exc) /\ UNCHANGED soffice_cmd
           ELSE /\ soffice_cmd' = [soffice_cmd EXCEPT ![t] = r.value]
                /\ Goto(t, After("locate"))
                /\ UNCHANGED <<outcome, fs>>
    /\ UNCHANGED <<host, input_path, output_dir, process, fs0, result>>

\* subprocess.run(cmd, ...): the child is started.
Spawn(t) ==
    /\ pc[t] = "spawn"
    /\ Begin(t, "spawn")
    /\ LET r == Popen(fs, Cmd(soffice_cmd[t], input_path[t], output_dir[t]))
       IN  IF r.raised
           THEN Fail(t, r.exc) /\ UNCHANGED process
           ELSE /\ process' = [process EXCEPT ![t] = r.value]
                /\ Goto(t, After("spawn"))
                /\ UNCHANGED <<outcome, fs>>
    /\ UNCHANGED <<host, input_path, output_dir, soffice_cmd, fs0, result>>

\* Where the call ends once the child has exited: by raising, or by returning.
Finish(t, r) ==
    IF r.raised THEN Fail(t, r.exc)
    ELSE /\ outcome' = [outcome EXCEPT ![t] = r]
         /\ pc' = [pc EXCEPT ![t] = "done"]
         /\ fs' = fs

\* The child runs and exits (it is the child that writes into output_dir).
ChildExit(t) ==
    /\ pc[t] = "running"
    /\ \E p \in ProcResults :
          /\ process' = [process EXCEPT ![t] =
                [state |-> "exited", cmd |-> @.cmd,
                 returncode |-> p.returncode, stderr |-> p.stderr]]
          /\ fs' = IF p.wrote_pdf
                   THEN [fs EXCEPT ![output_dir[t] \o <<PdfName(input_path[t])>>] = "file"]
                   ELSE fs
    /\ Goto(t, "exited")
    /\ UNCHANGED <<host, input_path, output_dir, soffice_cmd, steps, outcome, fs0, result>>

\* subprocess.run returns; if process.returncode != 0: raise ...
CheckReturnCode(t) ==
    /\ pc[t] = "exited"
    /\ Finish(t, ExitOutcome(process[t]))
    /\ UNCHANGED <<host, input_path, output_dir, soffice_cmd, process, steps, fs0, result>>

\* One call run from beginning to end on filesystem f, its child process (if
\* it gets to start one) ending as p does.
RunAlone(f, in, out, p) ==
    IF ~IsFile(f, in) THEN Raise(InputNotFound(in))
    ELSE LET made == Makedirs(f, out, EXIST_OK)
         IN  IF made.raised THEN Raise(made.exc)
             ELSE LET fonts == check_fonts_installed(system_type, font_dir, fc_list)
                  IN  IF fonts.raised THEN fonts
                      ELSE LET loc == get_soffice_command(system_type, environ, PATH, made.fs)
                           IN  IF loc.raised THEN loc
                               ELSE LET child == Popen(made.fs, Cmd(loc.value, in, out))
                                    IN  IF child.raised THEN Raise(child.exc)
                                        ELSE IF p.state # "exited" THEN Pending
                                        ELSE ExitOutcome(p)

\* ------------------------------------------------------------------ hosts

SystemTypes == {"Windows", "Linux", "Darwin"}

\* Entries a Windows font directory may hold.
FontFileNames ==
    { <<"SimSun", ".ttf">>,
      <<"simsun", ".ttc">>,
      <<"SimSun", "-ExtB", ".ttc">>,
      <<"Microsoft", " ", "YaHei", " ", "UI", ".TTF">>,
      <<"Noto", " ", "Sans", " ", "CJK", " ", "JP", ".ttf">>,
      <<"arial", ".ttf">> }

\* Lines fc-list may print; the last is not UTF-8.
FcLines ==
    << <<"/usr/share/fonts/simsun.ttc: ", "SimSun", ",Song:style=Regular\n">>,
       <<"/usr/share/fonts/NotoSansCJK.ttc: ", "Noto", " ", "Sans", " ", "CJK", " ", "JP",
         ":style=Regular\n">>,
       <<"/usr/share/fonts/NotoSansCJK.ttc: ", "Noto", " ", "Sans", " ", "CJK", " ", "SC",
         ":style=Regular\n">>,
       <<"/usr/share/fonts/wqy-zenhei.ttc: ", "WenQuanYi Zen Hei", ":style=Regular\n">>,
       <<"/usr/share/fonts/", "\\xcb\\xce", ".ttf: ", "\\xcb\\xce", ":style=Regular\n">> >>

RECURSIVE Lines(_, _)
\* The lines of FcLines chosen by sel, from line i on, one after the other.
Lines(sel, i) ==
    IF i > Len(FcLines) THEN <<>>
    ELSE (IF i \in sel THEN FcLines[i] ELSE <<>>) \o Lines(sel, i + 1)

FcNotInstalled == [launch |-> "ENOENT", returncode |-> 127, stdout |-> <<>>]

FcRun(rc, sel) == [launch |-> "ok", returncode |-> rc, stdout |-> Lines(sel, 1)]

\* What running fc-list may do.
FcLists ==
    {FcNotInstalled} \cup {FcRun(rc, sel) : rc \in {0, 1}, sel \in SUBSET (1..Len(FcLines))}

EmptyEnv == [k \in {} |-> <<>>]

Environs ==
    { EmptyEnv,
      [k \in {"PROGRAMFILES"} |-> <<"D:", "Program Files">>],
      [k \in {"PROGRAMFILES", "PROGRAMFILES(X86)"} |->
          IF k = "PROGRAMFILES" THEN <<"D:", "Program Files">>
          ELSE <<"D:", "Program Files (x86)">>] }

\* Search paths of a Windows and of a Unix host.
WindowsPATHs ==
    { <<>>,
      << <<"C:", "Program Files", "LibreOffice", "program">> >>,
      << <<"D:", "tools">>, <<"C:", "Program Files", "LibreOffice", "program">> >> }

UnixPATHs ==
    { <<>>,
      << <<"/", "usr", "bin">> >>,
      << <<"/", "home", "u", "bin">>, <<"/", "usr", "bin">> >> }

PATHs(sys) == IF sys = "Windows" THEN WindowsPATHs ELSE UnixPATHs

Range(seq) == {seq[i] : i \in 1..Len(seq)}

\* Every location one of the hosts looks at for soffice.
ProbedPaths ==
    UNION {Range(WindowsPossiblePaths(env)) : env \in Environs}
        \cup Range(UnixPossiblePaths)
        \cup UNION {Range(WhichCandidates("Windows", path)) : path \in WindowsPATHs}
        \cup UNION {Range(WhichCandidates("Linux", path)) : path \in UnixPATHs}

\* The paths of the model's filesystem.
FsPaths ==
    InputPaths \cup OutputDirs \cup ProbedPaths
        \cup {out \o <<PdfName(in)>> : in \in InputPaths, out \in OutputDirs}

\* The documents of the host: one office document, one directory, one text
\* file; where soffice is to be found is added to it.
BaseFs ==
    [p \in FsPaths |->
        IF p \in {<<"doc.docx">>, <<"notes.txt">>} THEN "file"
        ELSE IF p = <<"docs">> THEN "dir"
        ELSE "absent"]

\* The filesystem with the paths of S being of kind k.
With(f, S, k) == [p \in DOMAIN f |-> IF p \in S THEN k ELSE f[p]]

Idle(x) == [t \in Callers |-> x]

InitCalls ==
    /\ pc = Idle("idle")
    /\ input_path = Idle(NoPath)
    /\ output_dir = Idle(NoPath)
    /\ soffice_cmd = Idle(NoPath)
    /\ process = Idle(NoProcess)
    /\ steps = Idle(<<>>)
    /\ outcome = Idle(Pending)
    /\ fs0 = fs
    /\ result = <<>>

\* ------------------------------------------- the converter, two callers

\* The font side of a host: on Windows the font directory, elsewhere fc-list.
InitFontsOf(dirs, fcs) ==
    /\ font_dir \in (IF system_type = "Windows" THEN dirs ELSE {{}})
    /\ fc_list \in (IF system_type = "Windows" THEN {FcNotInstalled} ELSE fcs)

\* Where soffice is installed on the hosts of Spec: nowhere, in a directory of
\* the search path, at a location only the fixed lists name, and (Unix) at such
\* a location without the permission to execute it.
Installs(sys) ==
    IF sys = "Windows"
    THEN { [at |-> {}, kind |-> "exec"],
           [at |-> {<<"C:", "Program Files", "LibreOffice", "program", "soffice.exe">>}, kind |-> "exec"],
           [at |-> {<<"E:">> \o SofficeExe, <<"G:">> \o SofficeExe}, kind |-> "exec"] }
    ELSE { [at |-> {}, kind |-> "exec"],
           [at |-> {<<"/", "usr", "bin", "soffice">>}, kind |-> "exec"],
           [at |-> {UnixPossiblePaths[3], UnixPossiblePaths[4]}, kind |-> "exec"],
           [at |-> {UnixPossiblePaths[3]}, kind |-> "file"] }

Init ==
    /\ system_type \in {"Windows", "Linux"}
    /\ environ = EmptyEnv
    /\ PATH = IF system_type = "Windows" THEN << <<"C:", "Program Files", "LibreOffice", "program">> >>
              ELSE << <<"/", "usr", "bin">> >>
    /\ InitFontsOf({ {}, {<<"SimSun", ".ttf">>}, {<<"simsun", ".ttc">>} },
                   { FcNotInstalled, FcRun(0, {3}), FcRun(0, {2}) })
    /\ \E i \in Installs(system_type), out \in {"absent", "dir"} :
          fs = With(With(BaseFs, i.at, i.kind), {<<"out">>}, out)
    /\ InitCalls

Next ==
    \E t \in Callers :
        \/ Call(t)
        \/ CheckInput(t)
        \/ MakedirsEnter(t)
        \/ MakedirsHead(t)
        \/ MakedirsLeaf(t)
        \/ CheckFonts(t)
        \/ Locate(t)
        \/ Spawn(t)
        \/ ChildExit(t)
        \/ CheckReturnCode(t)

Spec == Init /\ [][Next]_vars

\* ------------------------------------------- the font checker on its own

InitFonts ==
    /\ system_type \in SystemTypes
    /\ environ = EmptyEnv
    /\ PATH = <<>>
    /\ InitFontsOf(SUBSET FontFileNames, FcLists)
    /\ fs = BaseFs
    /\ InitCalls

CallCheckFonts ==
    /\ result = <<>>
    /\ result' = << [ret |-> check_fonts_installed(system_type, font_dir, fc_list),
                     ran |-> FontCheckCommands(system_type)] >>
    /\ UNCHANGED <<host, fs, calls>>

NextFonts == CallCheckFonts

SpecFonts == InitFonts /\ [][NextFonts]_vars

\* --------------------------------------- the executable locator on its own

InitLocator ==
    /\ system_type \in SystemTypes
    /\ environ \in (IF system_type = "Windows" THEN Environs ELSE {EmptyEnv})
    /\ PATH \in PATHs(system_type)
    /\ font_dir = {}
    /\ fc_list = FcNotInstalled
    /\ \E S \in SUBSET ProbedPaths, k \in {"exec", "file", "dir"} :
          /\ Cardinality(S) <= MaxExisting
          /\ k = "exec" \/ S # {}
          /\ fs = With(BaseFs, S, k)
    /\ InitCalls

CallGetSofficeCommand ==
    /\ result = <<>>
    /\ result' = << [ret |-> get_soffice_command(system_type, environ, PATH, fs), ran |-> <<>>] >>
    /\ UNCHANGED <<host, fs, calls>>

NextLocator == CallGetSofficeCommand

SpecLocator == InitLocator /\ [][NextLocator]_vars

\* ================================================================== claims

\* The call of t has a regular file as its input.
ValidInput(t) == Kind(fs, input_path[t]) \in {"file", "exec"}

Done(t) == pc[t] = "done"

Ran(t, step) == step \in Range(steps[t])

FailedWith(t, type) == outcome[t].raised /\ outcome[t].exc.type = type

ListsSome(text) == \E k \in 1..Len(REQUIRED_CHS_FONTS) : Contains(text, REQUIRED_CHS_FONTS[k])

ListsAllFonts(msg) == \A k \in 1..Len(REQUIRED_CHS_FONTS) : Contains(msg, REQUIRED_CHS_FONTS[k])

\* ---- C1
\* C1: a call whose input_path is no regular file (missing, or a directory)
\* fails with the not-found error of the input check, and by then nothing
\* else has been done: the creation of output_dir has not begun, neither the
\* font checker nor the locator has run, no process has been spawned.
C1_InputErrorFirst ==
    \A t \in Callers :
        (pc[t] \notin {"idle", "isfile"} /\ ~ValidInput(t)) =>
            /\ Done(t)
            /\ outcome[t] = Raise(InputNotFound(input_path[t]))
            /\ outcome[t].exc.type = "FileNotFoundError"
            /\ steps[t] = <<"isfile">>
            /\ soffice_cmd[t] = NoPath
            /\ process[t] = NoProcess

\* A call on a directory has failed, its output_dir still absent.
C1_Witness ==
    \E t \in Callers :
        /\ Done(t)
        /\ input_path[t] = <<"docs">>
        /\ FailedWith(t, "FileNotFoundError")
        /\ ~Exists(fs, output_dir[t])

\* ---- C2
\* C2: once the child has been spawned the exit code alone decides: a
\* nonzero code makes the call fail with ConvertToPdfError whose message
\* contains what the child wrote to standard error, code 0 makes it return
\* normally, whether or not a PDF was written.
C2_ExitCodeDecides ==
    \A t \in Callers :
        (Done(t) /\ process[t].state = "exited") =>
            IF process[t].returncode # 0
            THEN /\ FailedWith(t, "ConvertToPdfError")
                 /\ Contains(outcome[t].exc.msg, process[t].stderr)
            ELSE outcome[t] = Return(None)

\* ---- C3
\* The host shows none of the required families: no entry of the Windows font
\* directory, no line fc-list prints (if it can be run at all), names one.
NoRequiredFont ==
    IF system_type = "Windows"
    THEN \A f \in font_dir : ~ListsSome(f)
    ELSE fc_list.launch # "ok" \/ ~ListsSome(fc_list.stdout)

\* The font checker gets its listing: always on Windows, elsewhere when
\* fc-list starts, prints UTF-8 and exits with status 0.
ListingObtained ==
    \/ system_type = "Windows"
    \/ /\ fc_list.launch = "ok"
       /\ fc_list.returncode = 0
       /\ \A i \in 1..Len(fc_list.stdout) : fc_list.stdout[i] \notin InvalidUtf8

\* The call of t failed in the font check, with the error of
\* check_fonts_installed, before the executable was located or spawned.
FontFailure(t) ==
    /\ FailedWith(t, "EnvironmentError")
    /\ outcome[t] = check_fonts_installed(system_type, font_dir, fc_list)
    /\ ~Ran(t, "locate")
    /\ ~Ran(t, "spawn")
    /\ soffice_cmd[t] = NoPath
    /\ process[t] = NoProcess

\* C3 (as claimed): a call with a valid input that comes to the font check
\* on a host without any required font family fails with an EnvironmentError
\* whose message lists all required families, on every platform; the error
\* is check_fonts_installed's own and the executable is neither located nor
\* spawned.
C3_NoFontListsFamilies ==
    \A t \in Callers :
        (Done(t) /\ ValidInput(t) /\ Ran(t, "fonts") /\ NoRequiredFont) =>
            FontFailure(t) /\ ListsAllFonts(outcome[t].exc.msg)

\* C3 (amended): the same, the message listing the families on the hosts
\* where the font checker obtains its listing.
C3_NoFontListsFamiliesWhenListed ==
    \A t \in Callers :
        (Done(t) /\ ValidInput(t) /\ Ran(t, "fonts") /\ NoRequiredFont) =>
            /\ FontFailure(t)
            /\ ListingObtained => ListsAllFonts(outcome[t].exc.msg)

\* On Linux fc-list ran and named no required family; the call has failed.
C3_Witness ==
    \E t \in Callers :
        /\ Done(t) /\ ValidInput(t) /\ Ran(t, "fonts")
        /\ system_type = "Linux" /\ fc_list.launch = "ok" /\ NoRequiredFont
        /\ FailedWith(t, "EnvironmentError")

\* ---- C4
\* 'soffice' resolves nowhere on the search path.
Resolves(p) ==
    \/ Kind(fs, p) = "exec"
    \/ system_type = "Windows" /\ Kind(fs, p) = "file"

NotOnPath == \A p \in Range(WhichCandidates(system_type, PATH)) : ~Resolves(p)

\* The fixed list of the current platform, and of the other one.
PlatformPaths ==
    IF system_type = "Windows" THEN WindowsPossiblePaths(environ) ELSE UnixPossiblePaths

OtherPlatformPaths ==
    IF system_type = "Windows" THEN UnixPossiblePaths ELSE WindowsPossiblePaths(environ)

NoCandidateExists == \A p \in Range(PlatformPaths) : Kind(fs, p) = "absent"

\* The install guidance of the current platform.
HasGuidance(msg) ==
    IF system_type = "Windows"
    THEN /\ Contains(msg, <<"LibreOffice not found. Please install LibreOffice from https://www.libreoffice.org/ ">>)
         /\ Contains(msg, <<"or ensure soffice.exe is in your PATH environment variable.">>)
    ELSE /\ Contains(msg, <<"  - Ubuntu/Debian: sudo apt-get install libreoffice\n">>)
         /\ Contains(msg, <<"  - CentOS/RHEL: sudo yum install libreoffice\n">>)
         /\ Contains(msg, <<"  - macOS: brew install libreoffice or download from https://www.libreoffice.org/\n">>)

\* C4: with soffice neither on the search path nor at any candidate path of
\* the platform, get_soffice_command fails with ConvertToPdfError carrying the
\* platform's install guidance, and a call that comes to the locator fails
\* with that very error and spawns nothing.
C4_NotFoundGuidance ==
    (NotOnPath /\ NoCandidateExists) =>
        /\ LET r == get_soffice_command(system_type, environ, PATH, fs)
           IN  r.raised /\ r.exc.type = "ConvertToPdfError" /\ HasGuidance(r.exc.msg)
        /\ \A t \in Callers :
              (Done(t) /\ Ran(t, "locate")) =>
                  /\ FailedWith(t, "ConvertToPdfError")
                  /\ HasGuidance(outcome[t].exc.msg)
                  /\ outcome[t] = get_soffice_command(system_type, environ, PATH, fs)
                  /\ ~Ran(t, "spawn")
                  /\ process[t] = NoProcess

\* A call on Linux has come to the locator and failed there.
C4_Witness ==
    /\ NotOnPath /\ NoCandidateExists /\ system_type = "Linux"
    /\ \E t \in Callers : Done(t) /\ Ran(t, "locate") /\ FailedWith(t, "ConvertToPdfError")

\* ---- C5
\* The positions of a list of paths whose path is an executable file / exists.
ExecutableAt(paths) == {i \in 1..Len(paths) : Resolves(paths[i])}

ExistingAt(paths) == {i \in 1..Len(paths) : Kind(fs, paths[i]) # "absent"}

Least(S) == CHOOSE i \in S : \A j \in S : i <= j

\* C5: get_soffice_command returns the first hit of the search order: what
\* the search path resolves 'soffice' to, whatever candidates exist; else the
\* earliest existing entry of the platform's own list; never a later entry
\* while an earlier exists, never an entry of the other platform's list only.
C5_FirstHitWins ==
    Len(result) = 1 =>
        LET r == result[1].ret
            onpath == WhichCandidates(system_type, PATH)
        IN  IF ExecutableAt(onpath) # {}
            THEN ~r.raised /\ r.value = onpath[Least(ExecutableAt(onpath))]
            ELSE IF ExistingAt(PlatformPaths) # {}
            THEN /\ ~r.raised
                 /\ r.value = PlatformPaths[Least(ExistingAt(PlatformPaths))]
                 /\ r.value \notin Range(OtherPlatformPaths)
            ELSE r.raised

\* Nothing on the search path, two different candidates of the platform
\* exist, and the locator has returned.
C5_Witness ==
    /\ Len(result) = 1
    /\ ~result[1].ret.raised
    /\ ExecutableAt(WhichCandidates(system_type, PATH)) = {}
    /\ Cardinality({PlatformPaths[i] : i \in ExistingAt(PlatformPaths)}) = 2

\* ---- C6
\* A file of the Windows font directory matching *.ttf has a required family
\* name in its name.
TtfNamesFont ==
    \E f \in font_dir :
        /\ Len(f) > 0 /\ f[Len(f)] \in {".ttf", ".TTF"}
        /\ ListsSome(f)

\* What C6 says of a finished call of check_fonts_installed, found being
\* the condition under which it is to return True.
FontCheckIs(found) ==
    Len(result) = 1 =>
        LET r == result[1].ret
        IN  /\ found => (~r.raised /\ r.value = TRUE)
            /\ ~found => (r.raised /\ r.exc.type = "EnvironmentError")
            /\ system_type = "Windows" => result[1].ran = <<>>

\* C6 (as claimed): True exactly when a required name is found, on Windows in
\* the name of a *.ttf file and without a subprocess, elsewhere in the output
\* of fc-list; EnvironmentError in every other case, never False.
C6_TrueIffFound ==
    FontCheckIs(IF system_type = "Windows" THEN TtfNamesFont
                ELSE fc_list.launch = "ok" /\ ListsSome(fc_list.stdout))

\* C6 (amended): elsewhere than on Windows the name must occur in the output
\* of an fc-list that printed UTF-8 and exited with status 0.
C6_TrueIffFoundAndExitZero ==
    FontCheckIs(IF system_type = "Windows" THEN TtfNamesFont
                ELSE ListingObtained /\ ListsSome(fc_list.stdout))

\* fc-list named a required family, and check_fonts_installed returned.
C6_Witness ==
    /\ Len(result) = 1
    /\ system_type # "Windows"
    /\ ListingObtained /\ ListsSome(fc_list.stdout)
    /\ ~result[1].ret.raised

\* ---- C7
\* The call of t is past the creation of output_dir (which it has begun).
PastMakedirs(t) == Ran(t, "makedirs") /\ pc[t] \notin {"makedirs", "makedirs_head", "mkdir"}

\* The call of t failed in the creation of output_dir.
FailedAtMakedirs(t) == Done(t) /\ outcome[t].raised /\ steps[t] = <<"isfile", "makedirs">>

Created(t) == IsDir(fs, output_dir[t]) /\ IsDir(fs, Parent(output_dir[t]))

\* What C7 says of every call with a valid input, past being the callers after
\* whose call output_dir is to exist.
IdempotentCreation(past) ==
    \A t \in Callers :
        (pc[t] \notin {"idle", "isfile"} /\ ValidInput(t)) =>
            /\ ~FailedWith(t, "FileExistsError")
            /\ IsDir(fs0, output_dir[t]) => (IsDir(fs, output_dir[t]) /\ ~FailedAtMakedirs(t))
            /\ t \in past => Created(t)

\* C7 (as claimed): no call fails because the directory already exists, a
\* directory found present stays, and after any call that got past the input
\* check output_dir and its parents exist.
C7_IdempotentCreation == IdempotentCreation({t \in Callers : PastMakedirs(t)})

\* C7 (amended): ... and after any call whose creation of output_dir did not
\* fail, output_dir and its parents exist.
C7_IdempotentCreationUnlessFailed ==
    IdempotentCreation({t \in Callers : PastMakedirs(t) /\ ~FailedAtMakedirs(t)})

\* Two calls with the same output_dir, absent at first, are both past its
\* creation.
C7_Witness ==
    \E t, u \in Callers :
        /\ t # u /\ output_dir[t] = output_dir[u]
        /\ ValidInput(t) /\ ValidInput(u)
        /\ ~Exists(fs0, output_dir[t])
        /\ PastMakedirs(t) /\ Done(u) /\ ~outcome[u].raised

\* ---- C8
IsPrefix(s, of) == Len(s) <= Len(of) /\ s = SubSeq(of, 1, Len(s))

\* How many steps a call at this label has begun.
StepsAt(label) ==
    IF label \in {"idle", "isfile"} THEN {0}
    ELSE IF label = "makedirs" THEN {1}
    ELSE IF label \in {"makedirs_head", "mkdir", "fonts"} THEN {2}
    ELSE IF label = "locate" THEN {3}
    ELSE IF label = "spawn" THEN {4}
    ELSE IF label \in {"running", "exited"} THEN {5}
    ELSE 1..5

\* C8: the steps of a call are a prefix of [input check, creation of
\* output_dir, font check, location, spawn], each at most once and each only
\* after the earlier ones succeeded; a failure ends the call; the executable
\* is spawned at most once and only with the path located in this call.
C8_LinearSteps ==
    \A t \in Callers :
        /\ IsPrefix(steps[t], StepOrder)
        /\ Len(steps[t]) \in StepsAt(pc[t])
        /\ outcome[t].raised => Done(t)
        /\ (Done(t) /\ Len(steps[t]) < Len(StepOrder)) => outcome[t].raised
        /\ process[t].state # "none" =>
              /\ steps[t] = StepOrder
              /\ soffice_cmd[t] # NoPath
              /\ process[t].cmd = Cmd(soffice_cmd[t], input_path[t], output_dir[t])
        /\ soffice_cmd[t] # NoPath =>
              /\ Ran(t, "locate")
              /\ soffice_cmd[t] = get_soffice_command(system_type, environ, PATH, fs).value

\* A call has gone through all five steps and its child has exited.
C8_Witness ==
    \E t \in Callers : Done(t) /\ steps[t] = StepOrder /\ process[t].state = "exited"

\* ---- C9
\* C9: nothing is cleaned up: a call that failed at the font check, at the
\* locator or on the exit code leaves output_dir in place, no step removes a
\* file or a directory, and the failing input check changes nothing at all.
C9_NoCleanup ==
    /\ [](\A t \in Callers :
              (Done(t) /\ outcome[t].raised /\ Ran(t, "fonts")) => IsDir(fs, output_dir[t]))
    /\ [][/\ \A p \in DOMAIN fs : fs[p] # "absent" => fs'[p] = fs[p]
          /\ \A t \in Callers : (pc[t] = "isfile" /\ pc'[t] = "done") => fs' = fs]_vars

\* A call created output_dir and then failed at the font check.
C9_Witness ==
    \E t \in Callers :
        /\ Done(t) /\ outcome[t].raised /\ steps[t] = <<"isfile", "makedirs", "fonts">>
        /\ ~Exists(fs0, output_dir[t])
        /\ IsDir(fs, output_dir[t])
        /\ \A u \in Callers \ {t} : pc[u] = "idle"

\* ---- C10
\* C10: however the steps of two calls interleave, each call ends as it
\* would have ended alone on the host as it was before the calls (its child,
\* if it starts one, exiting the same way); two calls naming the same absent
\* output_dir both get past its creation.
C10_Independent ==
    \A t \in Callers :
        Done(t) => outcome[t] = RunAlone(fs0, input_path[t], output_dir[t], process[t])

\* Both callers named the same output_dir, absent at first, with a valid
\* input; both calls are over.
C10_Witness ==
    /\ \A t \in Callers : Done(t) /\ ValidInput(t) /\ Ran(t, "fonts")
    /\ \E t, u \in Callers :
          /\ t # u /\ output_dir[t] = output_dir[u]
          /\ ~Exists(fs0, output_dir[t])

====
